---- MODULE Spec2Model ----
(***************************************************************************)
(* Model of the 302ai image MCP server (src/src/index.ts): the credential  *)
(* resolver and client cache (AI302Server.getApiInstance), the upstream    *)
(* client (AI302Api.listTools / callTool), the two request handlers        *)
(* (setupToolHandlers), transport selection (run) and the SIGINT handler   *)
(* (setupErrorHandling).                                                   *)
(*                                                                         *)
(* JavaScript is single-threaded: every action below is one run-to-        *)
(* completion turn of the event loop, from the resumption of an async      *)
(* function to its next suspending await.                                  *)
(***************************************************************************)
EXTENDS Integers, Sequences, FiniteSets, TLC

VARIABLES
    params,      \* what getParamValue(name) returns, per name (index.ts:18-21)
    env,         \* process.env["302AI_API_KEY"] after dotenv.config() (index.ts:23,226)
    runPc,       \* position of AI302Server.run(): "init","connect","startServer","done","failed"
    transports,  \* every transport object constructed so far, in order
    connected,   \* index in transports of the transport given to server.connect, 0 if none
    listening,   \* TRUE once transport.startServer() has completed (REST only)
    proc,        \* [alive, code]: the process and the code it exited with
    sigints,     \* SIGINT events handled so far
    closing,     \* server.close() promises not yet settled
    closed,      \* TRUE once a server.close() has completed
    api,         \* AI302Server.api: index in instances of the cached client, 0 = null
    instances,   \* every AI302Api object constructed so far (its apiKey), in order
    reqs,        \* every request received so far, with its handler's local state
    httpCalls    \* every fetch() issued so far, in order

vars == <<params, env, runPc, transports, connected, listening, proc, sigints,
          closing, closed, api, instances, reqs, httpCalls>>

lifeVars == <<runPc, transports, connected, listening, proc, sigints, closing, closed>>
routerVars == <<api, instances, reqs, httpCalls>>

----------------------------------------------------------------------------
(* Bounds of the model *)

\* requests received in a run of the router specification
MaxRequests == 2
\* requests received in a run of the upstream-outcome specification
MaxCalls == 1
\* requests received in a run of the lifecycle specification
MaxLifeRequests == 1
\* SIGINT events delivered in a run
MaxSigint == 2

----------------------------------------------------------------------------
(* JavaScript values *)

\* the value `undefined` (an absent parameter, header or variable)
Undefined == "<undefined>"

\* ToBoolean on the values the model uses: undefined and "" are falsy
Truthy(v) == v # Undefined /\ v # ""

\* a || b
JsOr(a, b) == IF Truthy(a) THEN a ELSE b

\* decimal digits of a numeric string, for Number(port)
DigitValue(c) ==
    CASE c = "0" -> 0 [] c = "1" -> 1 [] c = "2" -> 2 [] c = "3" -> 3
      [] c = "4" -> 4 [] c = "5" -> 5 [] c = "6" -> 6 [] c = "7" -> 7
      [] c = "8" -> 8 [] c = "9" -> 9

RECURSIVE Number(_)
\* Number(s) for a string of decimal digits
Number(s) ==
    IF Len(s) = 0 THEN 0
    ELSE 10 * Number(SubSeq(s, 1, Len(s) - 1)) + DigitValue(SubSeq(s, Len(s), Len(s)))

----------------------------------------------------------------------------
(* JSON values: [t, s, items]; t is "null", "string", "object", "array" or  *)
(* "undefined"; an object's items are its [k, v] properties in insertion    *)
(* order, an array's items are [k |-> "", v] elements.                      *)

JNull == [t |-> "null", s |-> "", items |-> <<>>]
JUndefined == [t |-> "undefined", s |-> "", items |-> <<>>]
JString(str) == [t |-> "string", s |-> str, items |-> <<>>]
JObject(props) == [t |-> "object", s |-> "", items |-> props]
JArray(elems) == [t |-> "array", s |-> "", items |-> [i \in 1..Len(elems) |-> [k |-> "", v |-> elems[i]]]]
Prop(key, val) == [k |-> key, v |-> val]

\* obj[key] of a decoded JSON value
JGet(obj, key) ==
    IF obj.t = "object" /\ \E i \in 1..Len(obj.items) : obj.items[i].k = key
    THEN obj.items[CHOOSE i \in 1..Len(obj.items) : obj.items[i].k = key].v
    ELSE JUndefined

\* QuoteJSONString for strings without characters that need escaping
Quote(str) == "\"" \o str \o "\""

RECURSIVE JoinWith(_, _)
\* parts joined by sep
JoinWith(parts, sep) ==
    IF Len(parts) = 0 THEN ""
    ELSE IF Len(parts) = 1 THEN parts[1]
    ELSE parts[1] \o sep \o JoinWith(Tail(parts), sep)

\* the properties of an object that JSON.stringify keeps (undefined ones are dropped)
Kept(items) == SelectSeq(items, LAMBDA p : p.v.t # "undefined")

RECURSIVE SerializeJSON(_, _, _)
\* ECMAScript SerializeJSONProperty / SerializeJSONObject / SerializeJSONArray
\* with the given gap; indent is the current indentation
SerializeJSON(v, gap, indent) ==
    LET stepback == indent
        ind == indent \o gap
        sep == IF gap = "" THEN "," ELSE ",\n" \o ind
        open(br) == IF gap = "" THEN br ELSE br \o "\n" \o ind
        close(br) == IF gap = "" THEN br ELSE "\n" \o stepback \o br
        colon == IF gap = "" THEN ":" ELSE ": "
    IN  CASE v.t = "null" -> "null"
          [] v.t = "string" -> Quote(v.s)
          [] v.t = "object" ->
              LET ps == Kept(v.items)
                  parts == [i \in 1..Len(ps) |->
                              Quote(ps[i].k) \o colon \o SerializeJSON(ps[i].v, gap, ind)]
              IN  IF Len(ps) = 0 THEN "{}"
                  ELSE open("{") \o JoinWith(parts, sep) \o close("}")
          [] v.t = "array" ->
              LET parts == [i \in 1..Len(v.items) |->
                              IF v.items[i].v.t = "undefined" THEN "null"
                              ELSE SerializeJSON(v.items[i].v, gap, ind)]
              IN  IF Len(v.items) = 0 THEN "[]"
                  ELSE open("[") \o JoinWith(parts, sep) \o close("]")

\* JSON.stringify(v)
JSONstringify(v) == SerializeJSON(v, "", "")

\* JSON.stringify(v, null, 2)
JSONstringify2(v) == SerializeJSON(v, "  ", "")

----------------------------------------------------------------------------
(* Configuration read when the module is loaded (index.ts:18-23, 78) *)

getParamValue(name) == params[name]

ai302ApiKey == getParamValue("302ai_api_key")

mode == JsOr(getParamValue("mode"), "stdio")

\* the port used when no port parameter is given
DefaultPort == 9593

\* Number(getParamValue("port") || 9593), as run() passes it to the transport
port == IF Truthy(getParamValue("port")) THEN Number(getParamValue("port")) ELSE DefaultPort

endpoint == JsOr(getParamValue("endpoint"), "/rest")

baseUrl == "https://api.302.ai/mcp"

\* getAuthValue(request, "302AI_API_KEY"): the authenticated value the request carries
getAuthValue(request) == request.auth

\* the absent `request` argument of getApiInstance(request?)
NoRequest == [supplied |-> FALSE, kind |-> "none", auth |-> Undefined,
              name |-> Undefined, arguments |-> JUndefined]

----------------------------------------------------------------------------
(* Errors and results *)

InvalidParams == -32602
InternalError == -32603

\* new McpError(code, message), as index.ts:113, 124, 230 construct it: the SDK's
\* constructor sets the message property to `MCP error ${code}: ${message}`,
\* which is what err.message reads in the catch blocks
McpError(code, message) ==
    [code |-> code, message |-> "MCP error " \o ToString(code) \o ": " \o message]

Pending == [st |-> "pending", code |-> 0, message |-> "", value |-> JUndefined]
Returned(v) == [st |-> "ok", code |-> 0, message |-> "", value |-> v]
Thrown(err) == [st |-> "error", code |-> err.code, message |-> err.message, value |-> JUndefined]

----------------------------------------------------------------------------
(* What the upstream can answer to one fetch() *)

NoOutcome == [type |-> "none", status |-> 0, statusText |-> "", body |-> "", message |-> ""]
Rejected(msg) == [type |-> "reject", status |-> 0, statusText |-> "", body |-> "", message |-> msg]
Answered(status, text, body) ==
    [type |-> "response", status |-> status, statusText |-> text, body |-> body, message |-> ""]

\* response.ok
ResponseOk(o) == o.status >= 200 /\ o.status <= 299

ToolT2i == JObject(<<Prop("name", JString("t2i"))>>)
ResultOk == JObject(<<Prop("result", JString("ok"))>>)
ResultImages ==
    JObject(<<Prop("images", JArray(<<JString("a.png"), JString("b.png")>>)),
              Prop("meta", JObject(<<>>))>>)

\* response.json() on the body texts the model's upstream sends: the decoded
\* value, or the SyntaxError it rejects with
ResponseJson(body) ==
    CASE body = "{\"tools\":[{\"name\":\"t2i\"}]}" ->
            [ok |-> TRUE, value |-> JObject(<<Prop("tools", JArray(<<ToolT2i>>))>>), message |-> ""]
      [] body = "{\"tools\":[]}" ->
            [ok |-> TRUE, value |-> JObject(<<Prop("tools", JArray(<<>>))>>), message |-> ""]
      [] body = "{}" ->
            [ok |-> TRUE, value |-> JObject(<<>>), message |-> ""]
      [] body = "{\"result\":\"ok\"}" ->
            [ok |-> TRUE, value |-> ResultOk, message |-> ""]
      [] body = "{ \"result\" : \"ok\" }" ->
            [ok |-> TRUE, value |-> ResultOk, message |-> ""]
      [] body = "null" ->
            [ok |-> TRUE, value |-> JNull, message |-> ""]
      [] body = "{\"images\":[\"a.png\",\"b.png\"],\"meta\":{}}" ->
            [ok |-> TRUE, value |-> ResultImages, message |-> ""]
      [] OTHER ->
            [ok |-> FALSE, value |-> JUndefined,
             message |-> "Unexpected token < in JSON at position 0"]

NetworkError == Rejected("fetch failed")
Http500 == Answered(500, "Internal Server Error", "boom")
Http401 == Answered(401, "Unauthorized", "{\"error\":\"bad key\"}")

\* answers to GET /v1/tool/list
ListOutcomes ==
    {NetworkError, Http500, Http401,
     Answered(200, "OK", "{\"tools\":[{\"name\":\"t2i\"}]}"),
     Answered(200, "OK", "{\"tools\":[]}"),
     Answered(200, "OK", "{}"),
     Answered(200, "OK", "<html>")}

\* answers to POST /v1/tool/call
CallOutcomes ==
    {NetworkError, Http500, Http401,
     Answered(200, "OK", "{\"result\":\"ok\"}"),
     Answered(200, "OK", "{ \"result\" : \"ok\" }"),
     Answered(200, "OK", "null"),
     Answered(201, "Created", "{\"images\":[\"a.png\",\"b.png\"],\"meta\":{}}"),
     Answered(200, "OK", "<html>")}

\* one answer of each kind: success, non-success status, transport failure
BasicListOutcomes == {NetworkError, Http500, Answered(200, "OK", "{\"tools\":[{\"name\":\"t2i\"}]}")}
BasicCallOutcomes == {NetworkError, Http500, Answered(200, "OK", "{\"result\":\"ok\"}")}

----------------------------------------------------------------------------
(* Inputs *)

\* values of the process-start key parameter
StartKeys == {Undefined, "", "K1"}
\* values of the 302AI_API_KEY environment variable
EnvKeys == {Undefined, "", "K3"}
\* authenticated values a request can carry
AuthValues == {Undefined, "", "KA", "KB"}
\* the keys given or absent, two request values
BasicStartKeys == {Undefined, "K1"}
BasicEnvKeys == {Undefined, "K3"}
BasicAuthValues == {Undefined, "KA", "KB"}
\* values of the mode parameter
Modes == {Undefined, "", "stdio", "rest", "REST"}
\* values of the port parameter
Ports == {Undefined, "", "8080"}
\* values of the endpoint parameter
Endpoints == {Undefined, "/mcp"}

UpscaleArgs == JObject(<<Prop("url", JString("http://x/img.png"))>>)
\* (name, arguments) of the call-tool requests
ToolCalls == {[name |-> "upscale", arguments |-> UpscaleArgs],
              [name |-> "t2i", arguments |-> JUndefined]}
BasicToolCalls == {[name |-> "upscale", arguments |-> UpscaleArgs]}

----------------------------------------------------------------------------
(* AI302Server.getApiInstance (index.ts:222-242) *)

\* variant: the request's value is consulted before the process-start key
ResolveRequestFirst(request) ==
    JsOr(JsOr(IF request.supplied THEN getAuthValue(request) ELSE Undefined,
              ai302ApiKey),
         env)

\* ai302ApiKey || (request && getAuthValue(request, ...)) || process.env[...]
ResolveApiKey(request) ==
    JsOr(JsOr(ai302ApiKey,
              IF request.supplied THEN getAuthValue(request) ELSE Undefined),
         env)

\* variant: the cached instance is kept whatever key it holds
NeedsNewInstanceOnlyFirst(apiKey) == api = 0

\* variant: every request constructs an instance
NeedsNewInstanceAlways(apiKey) == TRUE

\* !this.api || this.api.getApiKey() !== apiKey
NeedsNewInstance(apiKey) == api = 0 \/ instances[api].apiKey # apiKey

\* variant: the missing-key check is left out
getApiInstanceUnchecked(request) ==
    LET apiKey == ResolveApiKey(request) IN
    IF NeedsNewInstance(apiKey)
    THEN [threw |-> FALSE, error |-> McpError(0, ""), apiKey |-> apiKey,
          api |-> Len(instances) + 1,
          instances |-> Append(instances, [apiKey |-> apiKey])]
    ELSE [threw |-> FALSE, error |-> McpError(0, ""), apiKey |-> apiKey,
          api |-> api, instances |-> instances]

\* the call's outcome: the error it throws, or the key it resolved, the
\* instance it returns and the cache and constructed instances after it
getApiInstance(request) ==
    LET apiKey == ResolveApiKey(request) IN
    IF ~Truthy(apiKey)
    THEN [threw |-> TRUE,
          error |-> McpError(InvalidParams, "API key is required to call the tool"),
          apiKey |-> Undefined, api |-> api, instances |-> instances]
    ELSE IF NeedsNewInstance(apiKey)
    THEN [threw |-> FALSE, error |-> McpError(0, ""), apiKey |-> apiKey,
          api |-> Len(instances) + 1,
          instances |-> Append(instances, [apiKey |-> apiKey])]
    ELSE [threw |-> FALSE, error |-> McpError(0, ""), apiKey |-> apiKey,
          api |-> api, instances |-> instances]

----------------------------------------------------------------------------
(* AI302Api (index.ts:77-177) *)

\* the fetch() listTools issues, on the instance it is called on
listToolsFetch(id, inst) ==
    [req |-> id, method |-> "GET",
     url |-> baseUrl \o "/v1/tool/list" \o "?packId=imageTools&user302=user302",
     authorization |-> "Bearer " \o inst.apiKey,
     xApiKey |-> Undefined,
     body |-> Undefined]

\* the fetch() callTool issues, on the instance it is called on
callToolFetch(id, inst, name, arguments) ==
    [req |-> id, method |-> "POST",
     url |-> baseUrl \o "/v1/tool/call",
     authorization |-> "Bearer " \o inst.apiKey,
     xApiKey |-> inst.apiKey,
     body |-> JSONstringify(JObject(<<Prop("nameOrId", JString(name)),
                                      Prop("arguments", arguments)>>))]

\* the catch block of listTools: whatever was thrown in the try, rethrown
listToolsCatch(errMessage) ==
    Thrown(McpError(InternalError, "Failed to fetch tools: " \o errMessage))

\* the catch block of callTool
callToolCatch(errMessage) ==
    Thrown(McpError(InternalError, "Tool call failed: " \o errMessage))

\* variant: the status and reason are left out of the message
HttpStatusErrorBare(o) == McpError(InternalError, "HTTP error")

\* the McpError thrown inside the try for a non-success status
HttpStatusError(o) ==
    McpError(InternalError, "HTTP " \o ToString(o.status) \o ": " \o o.statusText)

\* what listTools() settles with once fetch() has settled with o
listToolsResult(o) ==
    IF o.type = "reject" THEN listToolsCatch(o.message)
    ELSE IF ~ResponseOk(o) THEN listToolsCatch(HttpStatusError(o).message)
    ELSE LET data == ResponseJson(o.body) IN
         IF ~data.ok THEN listToolsCatch(data.message)
         ELSE IF JGet(data.value, "tools").t = "undefined"
         THEN listToolsCatch("Cannot read properties of undefined (reading 'length')")
         ELSE Returned(JGet(data.value, "tools"))

\* what callTool() settles with once fetch() has settled with o
callToolResult(o) ==
    IF o.type = "reject" THEN callToolCatch(o.message)
    ELSE IF ~ResponseOk(o) THEN callToolCatch(HttpStatusError(o).message)
    ELSE LET data == ResponseJson(o.body) IN
         IF ~data.ok THEN callToolCatch(data.message)
         ELSE Returned(data.value)

----------------------------------------------------------------------------
(* The request handlers (index.ts:244-276) *)

\* the process is up and its transport delivers requests
Serving == proc.alive /\ runPc = "done"

NewRequest(kind, auth, name, arguments) ==
    [supplied |-> TRUE, kind |-> kind, auth |-> auth, name |-> name, arguments |-> arguments]

\* a request's entry in reqs
Entry(request, pc, g, response) ==
    [kind |-> request.kind, auth |-> request.auth, name |-> request.name,
     arguments |-> request.arguments, pc |-> pc, apiKey |-> g.apiKey,
     api |-> IF g.threw THEN 0 ELSE g.api,
     upstream |-> NoOutcome, result |-> Pending, response |-> response]

\* variant: the handler replaces a failure by an error of its own
ListToolsResponseTranslated(result) ==
    IF result.st = "ok" THEN Returned([tools |-> result.value])
    ELSE Thrown(McpError(InternalError, "Failed to list tools"))

\* what the list handler answers once api.listTools() has settled
ListToolsResponse(result) ==
    IF result.st = "ok" THEN Returned([tools |-> result.value]) ELSE result

\* variant: the result is serialized without the { content } wrapper
CallToolResponseUnwrapped(result) ==
    IF result.st = "ok"
    THEN Returned([content |->
            <<[type |-> "text", text |-> JSONstringify2(result.value)]>>])
    ELSE result

\* what the call handler answers once api.callTool() has settled
CallToolResponse(result) ==
    IF result.st = "ok"
    THEN Returned([content |->
            <<[type |-> "text",
               text |-> JSONstringify2(JObject(<<Prop("content", result.value)>>))]>>])
    ELSE result

\* ListToolsRequestSchema handler, up to the await of fetch() inside listTools
HandleListTools(auth, cap) ==
    /\ Serving
    /\ Len(reqs) < cap
    /\ LET request == NewRequest("list", auth, Undefined, JUndefined)
           id == Len(reqs) + 1
           g == getApiInstance(request)
       IN  IF g.threw
           THEN /\ reqs' = Append(reqs, Entry(request, "done", g, Thrown(g.error)))
                /\ UNCHANGED <<api, instances, httpCalls>>
           ELSE /\ api' = g.api
                /\ instances' = g.instances
                /\ httpCalls' = Append(httpCalls, listToolsFetch(id, g.instances[g.api]))
                /\ reqs' = Append(reqs, Entry(request, "fetch", g, Pending))
    /\ UNCHANGED <<params, env, lifeVars>>

\* CallToolRequestSchema handler, up to the await of fetch() inside callTool
HandleCallTool(auth, call, cap) ==
    /\ Serving
    /\ Len(reqs) < cap
    /\ LET request == NewRequest("call", auth, call.name, call.arguments)
           id == Len(reqs) + 1
           g == getApiInstance(request)
       IN  IF g.threw
           THEN /\ reqs' = Append(reqs, Entry(request, "done", g, Thrown(g.error)))
                /\ UNCHANGED <<api, instances, httpCalls>>
           ELSE /\ api' = g.api
                /\ instances' = g.instances
                /\ httpCalls' = Append(httpCalls,
                       callToolFetch(id, g.instances[g.api], call.name, call.arguments))
                /\ reqs' = Append(reqs, Entry(request, "fetch", g, Pending))
    /\ UNCHANGED <<params, env, lifeVars>>

\* variant: a failed fetch is issued once more before the failure is reported
ListToolsSettleRetry(i, o) ==
    /\ proc.alive
    /\ reqs[i].kind = "list" /\ reqs[i].pc = "fetch"
    /\ IF listToolsResult(o).st = "error"
          /\ Cardinality({c \in 1..Len(httpCalls) : httpCalls[c].req = i}) < 2
       THEN /\ httpCalls' = Append(httpCalls, listToolsFetch(i, instances[reqs[i].api]))
            /\ UNCHANGED reqs
       ELSE /\ reqs' = [reqs EXCEPT ![i].pc = "settled", ![i].upstream = o,
                                    ![i].result = listToolsResult(o)]
            /\ UNCHANGED httpCalls
    /\ UNCHANGED <<params, env, lifeVars, api, instances>>

\* listTools() from the settling of its fetch() to its return or throw
ListToolsSettle(i, o) ==
    /\ proc.alive
    /\ reqs[i].kind = "list" /\ reqs[i].pc = "fetch"
    /\ reqs' = [reqs EXCEPT ![i].pc = "settled", ![i].upstream = o,
                            ![i].result = listToolsResult(o)]
    /\ UNCHANGED <<params, env, lifeVars, api, instances, httpCalls>>

\* callTool() from the settling of its fetch() to its return or throw
CallToolSettle(i, o) ==
    /\ proc.alive
    /\ reqs[i].kind = "call" /\ reqs[i].pc = "fetch"
    /\ reqs' = [reqs EXCEPT ![i].pc = "settled", ![i].upstream = o,
                            ![i].result = callToolResult(o)]
    /\ UNCHANGED <<params, env, lifeVars, api, instances, httpCalls>>

\* the list handler after `await api.listTools()`
ListToolsResume(i) ==
    /\ proc.alive
    /\ reqs[i].kind = "list" /\ reqs[i].pc = "settled"
    /\ reqs' = [reqs EXCEPT ![i].pc = "done",
                            ![i].response = ListToolsResponse(reqs[i].result)]
    /\ UNCHANGED <<params, env, lifeVars, api, instances, httpCalls>>

\* the call handler after `await api.callTool(...)`
CallToolResume(i) ==
    /\ proc.alive
    /\ reqs[i].kind = "call" /\ reqs[i].pc = "settled"
    /\ reqs' = [reqs EXCEPT ![i].pc = "done",
                            ![i].response = CallToolResponse(reqs[i].result)]
    /\ UNCHANGED <<params, env, lifeVars, api, instances, httpCalls>>

----------------------------------------------------------------------------
(* AI302Server.run (index.ts:278-303), its caller (306-311) and the SIGINT  *)
(* handler (211-215)                                                        *)

\* variant: every mode but "stdio" selects the REST transport
NewTransportUnlessStdio ==
    IF mode # "stdio"
    THEN [kind |-> "rest", port |-> port, endpoint |-> endpoint]
    ELSE [kind |-> "stdio", port |-> 0, endpoint |-> ""]

\* the transport run() constructs
NewTransport ==
    IF mode = "rest"
    THEN [kind |-> "rest", port |-> port, endpoint |-> endpoint]
    ELSE [kind |-> "stdio", port |-> 0, endpoint |-> ""]

\* process.exit(code)
Exit(code) == proc' = [alive |-> FALSE, code |-> code]

\* run() up to `await this.server.connect(transport)`
RunBegin ==
    /\ proc.alive /\ runPc = "init"
    /\ transports' = Append(transports, NewTransport)
    /\ connected' = Len(transports) + 1
    /\ runPc' = "connect"
    /\ UNCHANGED <<params, env, listening, proc, sigints, closing, closed, routerVars>>

\* server.connect(transport) settles; run() goes on to its next await, or
\* rejects and the catch of line 307 exits with code 1
ConnectSettle(ok) ==
    /\ proc.alive /\ runPc = "connect"
    /\ IF ok
       THEN /\ runPc' = IF transports[connected].kind = "rest" THEN "startServer" ELSE "done"
            /\ UNCHANGED proc
       ELSE /\ runPc' = "failed"
            /\ Exit(1)
    /\ UNCHANGED <<params, env, transports, connected, listening, sigints, closing,
                   closed, routerVars>>

\* transport.startServer() settles
StartServerSettle(ok) ==
    /\ proc.alive /\ runPc = "startServer"
    /\ IF ok
       THEN /\ runPc' = "done"
            /\ listening' = TRUE
            /\ UNCHANGED proc
       ELSE /\ runPc' = "failed"
            /\ Exit(1)
            /\ UNCHANGED listening
    /\ UNCHANGED <<params, env, transports, connected, sigints, closing, closed, routerVars>>

\* the SIGINT handler up to `await this.server.close()`
Sigint ==
    /\ proc.alive /\ runPc # "init"
    /\ sigints < MaxSigint
    /\ sigints' = sigints + 1
    /\ closing' = closing + 1
    /\ UNCHANGED <<params, env, runPc, transports, connected, listening, proc, closed,
                   routerVars>>

\* a server.close() settles: the handler goes on to process.exit(0), or its
\* promise rejects unhandled, which the runtime either reports or turns into
\* an exit with code 1
CloseSettle(ok, crash) ==
    /\ proc.alive /\ closing > 0
    /\ closing' = closing - 1
    /\ IF ok
       THEN closed' = TRUE /\ Exit(0)
       ELSE /\ UNCHANGED closed
            /\ IF crash THEN Exit(1) ELSE UNCHANGED proc
    /\ UNCHANGED <<params, env, runPc, transports, connected, listening, sigints, routerVars>>

----------------------------------------------------------------------------
(* Specifications *)

Params(k, m, p, e) ==
    [n \in {"302ai_api_key", "mode", "port", "endpoint"} |->
        CASE n = "302ai_api_key" -> k [] n = "mode" -> m [] n = "port" -> p
          [] n = "endpoint" -> e]

\* the state after `new AI302Server()`, before run()
Constructed ==
    /\ runPc = "init" /\ transports = <<>> /\ connected = 0 /\ listening = FALSE
    /\ proc = [alive |-> TRUE, code |-> 0]
    /\ sigints = 0 /\ closing = 0 /\ closed = FALSE
    /\ api = 0 /\ instances = <<>> /\ reqs = <<>> /\ httpCalls = <<>>

\* the state once run() has completed, before the first request
Started ==
    /\ runPc = "done" /\ transports = <<NewTransport>> /\ connected = 1
    /\ listening = (mode = "rest")
    /\ proc = [alive |-> TRUE, code |-> 0]
    /\ sigints = 0 /\ closing = 0 /\ closed = FALSE
    /\ api = 0 /\ instances = <<>> /\ reqs = <<>> /\ httpCalls = <<>>

\* a started server, each key given or not
Init ==
    /\ \E k \in BasicStartKeys : params = Params(k, Undefined, Undefined, Undefined)
    /\ env \in BasicEnvKeys
    /\ Started

\* concurrent requests, one upstream answer of each kind
Next ==
    \/ \E a \in BasicAuthValues : HandleListTools(a, MaxRequests)
    \/ \E a \in BasicAuthValues, c \in BasicToolCalls : HandleCallTool(a, c, MaxRequests)
    \/ \E i \in 1..Len(reqs), o \in BasicListOutcomes : ListToolsSettle(i, o)
    \/ \E i \in 1..Len(reqs), o \in BasicCallOutcomes : CallToolSettle(i, o)
    \/ \E i \in 1..Len(reqs) : ListToolsResume(i)
    \/ \E i \in 1..Len(reqs) : CallToolResume(i)

Spec == Init /\ [][Next]_vars

\* a started server, any configuration of the keys
InitUpstream ==
    /\ \E k \in StartKeys : params = Params(k, Undefined, Undefined, Undefined)
    /\ env \in EnvKeys
    /\ Started

\* every upstream answer, every request form
NextUpstream ==
    \/ \E a \in AuthValues : HandleListTools(a, MaxCalls)
    \/ \E a \in AuthValues, c \in ToolCalls : HandleCallTool(a, c, MaxCalls)
    \/ \E i \in 1..Len(reqs), o \in ListOutcomes : ListToolsSettle(i, o)
    \/ \E i \in 1..Len(reqs), o \in CallOutcomes : CallToolSettle(i, o)
    \/ \E i \in 1..Len(reqs) : ListToolsResume(i)
    \/ \E i \in 1..Len(reqs) : CallToolResume(i)

SpecUpstream == InitUpstream /\ [][NextUpstream]_vars

\* a process from construction, any mode, port and endpoint
InitLife ==
    /\ \E m \in Modes, p \in Ports, e \in Endpoints : params = Params(Undefined, m, p, e)
    /\ env = "K3"
    /\ Constructed

\* startup, requests and shutdown
NextLife ==
    \/ RunBegin
    \/ \E ok \in BOOLEAN : ConnectSettle(ok)
    \/ \E ok \in BOOLEAN : StartServerSettle(ok)
    \/ Sigint
    \/ \E ok \in BOOLEAN, crash \in BOOLEAN : CloseSettle(ok, crash)
    \/ \E a \in {Undefined, "KA"} : HandleListTools(a, MaxLifeRequests)
    \/ \E a \in {Undefined, "KA"}, c \in BasicToolCalls : HandleCallTool(a, c, MaxLifeRequests)
    \/ \E i \in 1..Len(reqs), o \in BasicListOutcomes : ListToolsSettle(i, o)
    \/ \E i \in 1..Len(reqs), o \in BasicCallOutcomes : CallToolSettle(i, o)
    \/ \E i \in 1..Len(reqs) : ListToolsResume(i)
    \/ \E i \in 1..Len(reqs) : CallToolResume(i)

SpecLife == InitLife /\ [][NextLife]_vars

----------------------------------------------------------------------------
(* Properties *)

\* sub occurs in str
Contains(str, sub) ==
    \E i \in 1..(Len(str) - Len(sub) + 1) : SubSeq(str, i, i + Len(sub) - 1) = sub

\* absent or empty
IsEmpty(v) == v \in {Undefined, ""}

\* the fetches issued for request i
CallsOf(i) == {c \in 1..Len(httpCalls) : httpCalls[c].req = i}

\* C1: a request handled while no API key is available from any source fails
\* with InvalidParams, "API key is required", and no upstream HTTP call is
\* ever issued for it.
C1_NoKeyFailsBeforeAnyCall ==
    \A i \in 1..Len(reqs) :
        (IsEmpty(params["302ai_api_key"]) /\ IsEmpty(reqs[i].auth) /\ IsEmpty(env))
        => /\ reqs[i].pc = "done"
           /\ reqs[i].response.st = "error"
           /\ reqs[i].response.code = -32602
           /\ Contains(reqs[i].response.message, "API key is required")
           /\ CallsOf(i) = {}

\* a call request has failed with every key source present but empty
C1_Witness ==
    \E i \in 1..Len(reqs) :
        /\ params["302ai_api_key"] = "" /\ reqs[i].auth = "" /\ env = ""
        /\ reqs[i].kind = "call"
        /\ reqs[i].response.st = "error"
        /\ httpCalls = <<>>

\* the first non-empty of the candidates, Undefined when there is none
FirstNonEmpty(candidates) ==
    IF \E n \in 1..Len(candidates) : ~IsEmpty(candidates[n])
    THEN candidates[CHOOSE n \in 1..Len(candidates) :
                        /\ ~IsEmpty(candidates[n])
                        /\ \A m \in 1..(n - 1) : IsEmpty(candidates[m])]
    ELSE Undefined

\* C2: the resolver returns the first non-empty candidate in the order
\* process-start key, request authenticated value (when a request is
\* supplied), environment variable.
C2_ResolverPriority ==
    /\ \A i \in 1..Len(reqs) :
          reqs[i].apiKey = FirstNonEmpty(<<params["302ai_api_key"], reqs[i].auth, env>>)
    /\ LET g == getApiInstance(NoRequest)
       IN  g.apiKey = FirstNonEmpty(<<params["302ai_api_key"], env>>)

\* a process-start key has won over a different value carried by the request
C2_Witness ==
    \E i \in 1..Len(reqs) :
        /\ params["302ai_api_key"] = "K1" /\ reqs[i].auth = "KA"
        /\ reqs[i].apiKey = "K1"
        /\ httpCalls[CHOOSE c \in CallsOf(i) : TRUE].authorization = "Bearer K1"

\* C3: the upstream call issued for a request carries the credential resolved
\* for that same request, in Authorization and, for invocation, in x-api-key,
\* whatever the other requests do to the cached client.
C3_CallCarriesOwnCredential ==
    \A c \in 1..Len(httpCalls) :
        LET r == reqs[httpCalls[c].req] IN
        /\ ~IsEmpty(r.apiKey)
        /\ httpCalls[c].authorization = "Bearer " \o r.apiKey
        /\ (r.kind = "call" => httpCalls[c].xApiKey = r.apiKey)
        /\ instances[r.api].apiKey = r.apiKey

\* two requests with different credentials are in flight, the later one has
\* replaced the cached client, and the earlier call carries the earlier key
C3_Witness ==
    /\ Len(reqs) = 2
    /\ reqs[1].pc = "fetch" /\ reqs[2].pc = "fetch"
    /\ reqs[1].apiKey = "KA" /\ reqs[2].apiKey = "KB"
    /\ api = reqs[2].api /\ reqs[1].api # api
    /\ \E c \in CallsOf(1) : httpCalls[c].authorization = "Bearer KA"

\* C4: one cached instance; a request constructs an instance exactly when its
\* resolved credential differs from the cached instance's or nothing is
\* cached, and then the cached instance holds the resolved credential; a
\* request resolving the cached credential reuses the instance.
C4_ConstructOnlyOnCredentialChange ==
    [][ LET n == Len(instances) IN
        /\ Len(reqs') = Len(reqs) => (instances' = instances /\ api' = api)
        /\ Len(reqs') = Len(reqs) + 1 =>
             LET r == reqs'[Len(reqs')] IN
             IF IsEmpty(r.apiKey)
             THEN instances' = instances /\ api' = api
             ELSE /\ Len(instances') = (IF api = 0 \/ instances[api].apiKey # r.apiKey
                                        THEN n + 1 ELSE n)
                  /\ SubSeq(instances', 1, n) = instances
                  /\ api' \in 1..Len(instances')
                  /\ instances'[api'].apiKey = r.apiKey
                  /\ (Len(instances') = n => api' = api)
                  /\ r.api = api'
      ]_vars

\* two requests resolved the same credential and one instance was constructed
C4_Witness ==
    /\ Len(reqs) = 2
    /\ reqs[1].apiKey = "KA" /\ reqs[2].apiKey = "KA"
    /\ Len(instances) = 1 /\ reqs[1].api = reqs[2].api

\* C5: a failure raised by the resolver or by the upstream client reaches the
\* caller with the same kind and message; none becomes a result.
C5_FailuresReachCallerUnchanged ==
    \A i \in 1..Len(reqs) :
        reqs[i].pc = "done" =>
            /\ IsEmpty(reqs[i].apiKey) =>
                 /\ reqs[i].response.st = "error"
                 /\ reqs[i].response.code = -32602
                 /\ reqs[i].response.message =
                        "MCP error -32602: API key is required to call the tool"
            /\ reqs[i].result.st = "error" =>
                 /\ reqs[i].response.st = "error"
                 /\ reqs[i].response.code = reqs[i].result.code
                 /\ reqs[i].response.message = reqs[i].result.message
            /\ reqs[i].response.st = "ok" => reqs[i].result.st = "ok"

\* a list request whose upstream call failed at transport level has answered
C5_Witness ==
    \E i \in 1..Len(reqs) :
        /\ reqs[i].kind = "list" /\ reqs[i].pc = "done"
        /\ reqs[i].upstream.type = "reject"
        /\ reqs[i].response.st = "error"

ExpectedText(body) ==
    CASE body \in {"{\"result\":\"ok\"}", "{ \"result\" : \"ok\" }"} ->
            "{\n  \"content\": {\n    \"result\": \"ok\"\n  }\n}"
      [] body = "null" ->
            "{\n  \"content\": null\n}"
      [] body = "{\"images\":[\"a.png\",\"b.png\"],\"meta\":{}}" ->
            "{\n  \"content\": {\n    \"images\": [\n      \"a.png\",\n      \"b.png\"\n    ],\n    \"meta\": {}\n  }\n}"

\* the JSON text of { nameOrId, arguments } for the model's call requests
ExpectedRequestBody(name) ==
    CASE name = "upscale" ->
            "{\"nameOrId\":\"upscale\",\"arguments\":{\"url\":\"http://x/img.png\"}}"
      [] name = "t2i" -> "{\"nameOrId\":\"t2i\"}"

\* C7: a call whose upstream call succeeds with decoded body R answers one
\* "text" content item holding the 2-space-indented JSON of { content: R };
\* the upstream request body is { nameOrId: name, arguments: arguments }.
C7_CallResultEnvelope ==
    /\ \A i \in 1..Len(reqs) :
          (/\ reqs[i].kind = "call" /\ reqs[i].pc = "done"
           /\ reqs[i].upstream.type = "response"
           /\ reqs[i].upstream.status \in 200..299
           /\ reqs[i].upstream.body # "<html>")
          => /\ reqs[i].response.st = "ok"
             /\ Len(reqs[i].response.value.content) = 1
             /\ reqs[i].response.value.content[1].type = "text"
             /\ reqs[i].response.value.content[1].text = ExpectedText(reqs[i].upstream.body)
    /\ \A c \in 1..Len(httpCalls) :
          httpCalls[c].method = "POST" =>
              httpCalls[c].body = ExpectedRequestBody(reqs[httpCalls[c].req].name)

\* call_tool("upscale", {url}) answered {"result":"ok"} has returned the text
C7_Witness ==
    \E i \in 1..Len(reqs) :
        /\ reqs[i].kind = "call" /\ reqs[i].name = "upscale" /\ reqs[i].pc = "done"
        /\ reqs[i].upstream.body = "{\"result\":\"ok\"}"
        /\ reqs[i].response.value.content[1].text =
               "{\n  \"content\": {\n    \"result\": \"ok\"\n  }\n}"

\* C8: at most one transport is constructed and attached: the REST transport,
\* bound to the configured port and endpoint (defaults 9593 and /rest), iff
\* the mode parameter equals "rest", otherwise the standard-stream transport.
C8_OneTransportByMode ==
    /\ Len(transports) <= 1
    /\ connected = Len(transports)
    /\ runPc # "init" => Len(transports) = 1
    /\ \A t \in 1..Len(transports) :
          IF params["mode"] = "rest"
          THEN /\ transports[t].kind = "rest"
               /\ transports[t].port =
                    (IF IsEmpty(params["port"]) THEN 9593 ELSE 8080)
               /\ transports[t].endpoint =
                    (IF IsEmpty(params["endpoint"]) THEN "/rest" ELSE params["endpoint"])
          ELSE transports[t].kind = "stdio"
    /\ listening => (Len(transports) = 1 /\ transports[1].kind = "rest")

\* REST mode with no port and endpoint given listens on 9593 and /rest
C8_Witness ==
    /\ listening
    /\ params["mode"] = "rest" /\ params["port"] = Undefined
    /\ transports = <<[kind |-> "rest", port |-> 9593, endpoint |-> "/rest"]>>

\* C9: once SIGINT has been received, the process terminates only after the
\* close has completed, and with exit code 0.
C9_SigintClosesThenExitsZero ==
    (sigints > 0 /\ ~proc.alive) => (closed /\ proc.code = 0)

\* C10: a request whose credential resolves issues exactly one upstream HTTP
\* call, whatever the call's outcome.
C10_ExactlyOneUpstreamCall ==
    \A i \in 1..Len(reqs) :
        ~IsEmpty(reqs[i].apiKey) => Cardinality(CallsOf(i)) = 1

\* a list request whose call failed at transport level has answered
C10_Witness ==
    \E i \in 1..Len(reqs) :
        /\ reqs[i].kind = "list" /\ reqs[i].pc = "done"
        /\ reqs[i].upstream.type = "reject"
        /\ Cardinality(CallsOf(i)) = 1

====
